---- MODULE Spec2Model ----
(***************************************************************************)
(* Model of the RIA OCR corrector (src/ria.py): the ordered rule table,    *)
(* the document-identifier pattern and its field repair, and the           *)
(* PageCorrector that runs both passes over one page of OCR text.          *)
(*                                                                         *)
(* Text is a TLA+ string; Ch(s, i) is its i-th character (1-based).        *)
(* Regular expressions are data: a sequence of items, each a character     *)
(* class with a repetition range, plus an optional lookbehind and          *)
(* lookahead.  MatchAt is the backtracking matcher of Python's re for      *)
(* that fragment (greedy ranges, first success wins).                      *)
(***************************************************************************)
EXTENDS Integers, Sequences, FiniteSets, TLC

Ch(s, i) == SubSeq(s, i, i)

DIGIT == {"0", "1", "2", "3", "4", "5", "6", "7", "8", "9"}

UPPER == {"A", "B", "C", "D", "E", "F", "G", "H", "I", "J", "K", "L", "M",
          "N", "O", "P", "Q", "R", "S", "T", "U", "V", "W", "X", "Y", "Z"}

LOWER == {"a", "b", "c", "d", "e", "f", "g", "h", "i", "j", "k", "l", "m",
          "n", "o", "p", "q", "r", "s", "t", "u", "v", "w", "x", "y", "z"}

\* \w of the pattern language, over the characters the model's texts use
WORD == DIGIT \cup UPPER \cup LOWER \cup {"_"}

\* one pattern item: a character class repeated lo..hi times (greedy)
Item(cls, lo, hi) == [cls |-> cls, lo |-> lo, hi |-> hi]

\* a literal string as a sequence of single-character items
RECURSIVE Lit(_)
Lit(s) ==
    IF s = ""
    THEN <<>>
    ELSE <<Item({Head(s)}, 1, 1)>> \o Lit(Tail(s))

Pat(behind, items, ahead) == [behind |-> behind, items |-> items, ahead |-> ahead]

\* the value a failed match returns; a successful match returns the
\* number of characters each item consumed
NoMatch == <<-1>>

RECURSIVE Sum(_)
Sum(q) == IF q = <<>> THEN 0 ELSE Head(q) + Sum(Tail(q))

\* (?<!\w): no word character just before pos
BehindOk(behind, s, pos) ==
    CASE behind = "none"    -> TRUE
      [] behind = "notword" -> pos = 1 \/ Ch(s, pos - 1) \notin WORD

\* (?!\w): no word character at pos;  (?=[^0-9]): a character at pos that
\* is not a digit
AheadOk(ahead, s, pos) ==
    CASE ahead = "none"     -> TRUE
      [] ahead = "notword"  -> pos > Len(s) \/ Ch(s, pos) \notin WORD
      [] ahead = "nondigit" -> pos <= Len(s) /\ Ch(s, pos) \notin DIGIT

\* how many characters from pos on, at most hi, lie in cls
RECURSIVE RunLen(_, _, _, _)
RunLen(cls, s, pos, hi) ==
    IF hi = 0 \/ pos > Len(s) \/ Ch(s, pos) \notin cls
    THEN 0
    ELSE 1 + RunLen(cls, s, pos + 1, hi - 1)

\* Backtracking match of items i.. at pos: item i takes as many characters
\* as it can, and gives one back each time the rest fails.
RECURSIVE MatchItems(_, _, _, _, _)
RECURSIVE TryCount(_, _, _, _, _, _)
MatchItems(items, ahead, s, pos, i) ==
    IF i > Len(items)
    THEN IF AheadOk(ahead, s, pos) THEN <<>> ELSE NoMatch
    ELSE TryCount(items, ahead, s, pos, i,
                  RunLen(items[i].cls, s, pos, items[i].hi))

TryCount(items, ahead, s, pos, i, n) ==
    IF n < items[i].lo
    THEN NoMatch
    ELSE LET rest == MatchItems(items, ahead, s, pos + n, i + 1)
         IN  IF rest # NoMatch
             THEN <<n>> \o rest
             ELSE TryCount(items, ahead, s, pos, i, n - 1)

MatchAt(p, s, pos) ==
    IF BehindOk(p.behind, s, pos)
    THEN MatchItems(p.items, p.ahead, s, pos, 1)
    ELSE NoMatch

\* the positions of s at which p matches
MatchStarts(p, s) == {q \in 1..Len(s) : MatchAt(p, s, q) # NoMatch}

\* The matches a scan of s finds from pos on: the scan takes the leftmost
\* position at which p matches and resumes after the end of that match (no
\* pattern here matches the empty string).
RECURSIVE Scan(_, _, _, _)
Scan(p, s, starts, pos) ==
    LET ahead == {q \in starts : q >= pos}
    IN  IF ahead = {}
        THEN <<>>
        ELSE LET q == CHOOSE q \in ahead : \A r \in ahead : q <= r
                 m == MatchAt(p, s, q)
             IN  <<[start |-> q, lens |-> m]>> \o Scan(p, s, starts, q + Sum(m))

FindAll(p, s, pos) == Scan(p, s, MatchStarts(p, s), pos)

MatchEnd(m) == m.start + Sum(m.lens)

MatchText(s, m) == SubSeq(s, m.start, MatchEnd(m) - 1)

\* s with match k, k+1, ... of ms replaced by reps[k], reps[k+1], ...;
\* pos is the first character not yet copied
RECURSIVE Splice(_, _, _, _, _)
Splice(s, ms, reps, k, pos) ==
    IF k > Len(ms)
    THEN SubSeq(s, pos, Len(s))
    ELSE SubSeq(s, pos, ms[k].start - 1) \o reps[k]
            \o Splice(s, ms, reps, k + 1, MatchEnd(ms[k]))

(***************************************************************************)
(* The rule table                                                          *)
(***************************************************************************)

Rule(p, pattern, repl, label) ==
    [pat |-> p, pattern |-> pattern, repl |-> repl, label |-> label]

\* the character class [I1l] of tiers 2 and 3
I1l == {"I", "1", "l"}

RULES == <<
    \* 1. longest, most specific multi-character literals
    Rule(Pat("none", Lit("0002B"), "none"), "0002B", "00028", "0002B -> 00028"),
    Rule(Pat("none", Lit("OOI"), "none"), "OOI", "001", "OOI -> 001"),
    \* 2. prefix-anchored I/1 confusions
    Rule(Pat("none", Lit("PR") \o <<Item(I1l, 1, 2)>>, "none"),
         "PR[I1l]{1,2}", "PR1", "PR{I|II|1} -> PR1"),
    Rule(Pat("none", Lit("IN") \o <<Item(I1l, 1, 2)>>, "none"),
         "IN[I1l]{1,2}", "IN1", "IN{I|II|1} -> IN1"),
    Rule(Pat("none", Lit("GR") \o <<Item(I1l, 1, 2)>>, "none"),
         "GR[I1l]{1,2}", "GR1", "GR{I|II|1} -> GR1"),
    \* 3. leading-character ambiguous sequences
    Rule(Pat("none", <<Item(I1l, 1, 1)>> \o Lit("N2"), "none"),
         "[1Il]N2", "IN2", "[1/I]N2 -> IN2"),
    Rule(Pat("none", <<Item(I1l, 1, 1)>> \o Lit("N1"), "none"),
         "[1Il]N1", "IN1", "[1/I]N1 -> IN1"),
    \* 4. single-character swaps inside known surrounds
    Rule(Pat("none", Lit("P") \o <<Item({"I", "1"}, 1, 1)>> \o Lit("E"), "none"),
         "P[I1]E", "PLE", "P[I/1]E -> PLE"),
    Rule(Pat("none", Lit("028"), "none"), "028", "02B", "028 -> 02B"),
    Rule(Pat("none", Lit("040"), "none"), "040", "04C", "040 -> 04C"),
    \* 5. repairs of an upstream global O -> 0
    Rule(Pat("none", Lit("0P"), "nondigit"), "0P(?=[^0-9])", "OP", "0P -> OP"),
    Rule(Pat("none", Lit("0TH"), "none"), "0TH", "OTH", "0TH -> OTH")
>>

\* pat.subn(repl, s): the text with every match replaced, and the number
\* of matches
subn(rule, s) ==
    LET ms == FindAll(rule.pat, s, 1)
    IN  [text |-> Splice(s, ms, [i \in 1..Len(ms) |-> rule.repl], 1, 1),
         n    |-> Len(ms)]

(***************************************************************************)
(* The document identifier                                                 *)
(***************************************************************************)

\* the items of the identifier pattern after its first field
IdTail ==
    Lit("-") \o <<Item(WORD, 2, 4)>> \o Lit("-")
      \o <<Item(WORD, 2, 5)>> \o Lit("-") \o <<Item(WORD, 2, 3)>> \o Lit("-")
      \o <<Item(WORD, 2, 5)>> \o Lit("-") \o <<Item(WORD, 2, 5)>> \o Lit("-")
      \o <<Item(WORD, 4, 6)>>

\* the pattern without its closing (?!\w)
DOC_ID_RE_NoLookahead ==
    Pat("notword", <<Item(DIGIT, 2, 6)>> \o IdTail, "none")

\* the pattern with \w{2,6} for its first field
DOC_ID_RE_Seg1Word ==
    Pat("notword", <<Item(WORD, 2, 6)>> \o IdTail, "notword")

\* (?<!\w)(\d{2,6})-(\w{2,4})-(\w{2,5})-(\w{2,3})-(\w{2,5})-(\w{2,5})-(\w{4,6})(?!\w)
DOC_ID_RE ==
    Pat("notword",
        <<Item(DIGIT, 2, 6)>> \o Lit("-") \o <<Item(WORD, 2, 4)>> \o Lit("-")
          \o <<Item(WORD, 2, 5)>> \o Lit("-") \o <<Item(WORD, 2, 3)>> \o Lit("-")
          \o <<Item(WORD, 2, 5)>> \o Lit("-") \o <<Item(WORD, 2, 5)>> \o Lit("-")
          \o <<Item(WORD, 4, 6)>>,
        "notword")

\* the table with the sequence number taken for a Mixed field
SEG_TYPE_Seg7Mixed == <<"D", "M", "M", "M", "M", "M", "M">>

\* the table with the org code taken for a Digit field
SEG_TYPE_Seg2Digit == <<"D", "D", "M", "M", "M", "M", "D">>

SEG_TYPE == <<"D", "M", "M", "M", "M", "M", "D">>

\* str.replace(old, new) for a one-character old
RECURSIVE Replace(_, _, _)
Replace(s, old, new) ==
    IF s = ""
    THEN ""
    ELSE (IF Head(s) = old THEN new ELSE Head(s)) \o Replace(Tail(s), old, new)

\* the repair without its last replace: L stays
_fix_digit_seg_NoL(s) ==
    Replace(Replace(Replace(Replace(s, "O", "0"), "o", "0"), "I", "1"),
            "l", "1")

_fix_digit_seg(s) ==
    Replace(Replace(Replace(Replace(Replace(s, "O", "0"), "o", "0"),
                            "I", "1"), "l", "1"), "L", "1")

\* m.groups(): the text of capture group g; group g is item 2g-1 of
\* DOC_ID_RE
Group(s, m, g) ==
    LET from == m.start + Sum(SubSeq(m.lens, 1, 2 * g - 2))
    IN  SubSeq(s, from, from + m.lens[2 * g - 1] - 1)

RECURSIVE Join(_)
Join(segs) ==
    IF Len(segs) = 1
    THEN segs[1]
    ELSE segs[1] \o "-" \o Join(Tail(segs))

\* the (raw, fixed) pairs of the segments g.. that the repair changed
RECURSIVE SegChanges(_, _, _)
SegChanges(raw, fixed, g) ==
    IF g > Len(raw)
    THEN <<>>
    ELSE (IF fixed[g] # raw[g] THEN <<<<raw[g], fixed[g]>>>> ELSE <<>>)
            \o SegChanges(raw, fixed, g + 1)

_fix_doc_id(s, m) ==
    LET segs_raw == [g \in 1..7 |-> Group(s, m, g)]
        segs_fix == [g \in 1..7 |->
                        IF SEG_TYPE[g] = "D"
                        THEN _fix_digit_seg(segs_raw[g])
                        ELSE segs_raw[g]]
    IN  [id |-> Join(segs_fix), changes |-> SegChanges(segs_raw, segs_fix, 1)]

(***************************************************************************)
(* The page texts the model corrects                                       *)
(***************************************************************************)

\* free text: at most MaxFrags fragments, each a piece of a rule's pattern
MaxFrags == 3

\* identifier lines: at most MaxIds identifiers, separated by a blank
MaxIds == 2

Frags == {"0002B", "OOI", "PRI", "I", "N2", "04", "0", "0P", "x"}

RECURSIVE FragTexts(_)
FragTexts(n) ==
    IF n = 0
    THEN {""}
    ELSE LET shorter == FragTexts(n - 1)
         IN  shorter \cup {t \o f : t \in shorter, f \in Frags}

\* texts that exercise the rules the fragments do not reach
Samples == {"0TH", "GRl1", "INII", "1N1", "lN2", "P1E", "PIE", "00028",
            "0400", "0P\n", "0P-", "PRIIIII", "OP 0TH PIE",
            "12-PRIIIII-ab-cd-ef-gh-OOOO",
            "26437-RIA-001-DR-CLG-PC-0020512",
            "1234567-RIA-001-DR-CLG-PC-00205",
            "A26437-RIA-001-DR-CLG-PC-O0205 26437-RIA-001-DR-CLG-PC-O0205"}

Seg1Opts == {"26437", "2O437"}
Seg2Opts == {"RIA", "8lR"}
Seg3Opts == {"OOI", "028"}
Seg7Opts == {"O0205", "00205", "OIlLo"}

Ids == {s1 \o "-" \o s2 \o "-" \o s3 \o "-DR-CLG-PC-" \o s7 :
            s1 \in Seg1Opts, s2 \in Seg2Opts, s3 \in Seg3Opts, s7 \in Seg7Opts}

\* the identifiers that follow the first one of a line
MoreIds == {"26437-RIA-001-DR-CLG-PC-00001", "12-ab-cd-ef-gh-ij-LoO1"}

RECURSIVE IdLines(_)
IdLines(n) ==
    IF n <= 1
    THEN Ids
    ELSE LET shorter == IdLines(n - 1)
         IN  shorter \cup {l \o " " \o i : l \in shorter, i \in MoreIds}

\* what stands before and after a line of one identifier
Around == {<<"", "">>, <<"x", "">>, <<"", "_">>, <<"", "\n">>}

IdTexts == {a[1] \o l \o a[2] : a \in Around, l \in Ids} \cup IdLines(MaxIds)

Inputs == FragTexts(MaxFrags) \cup Samples \cup IdTexts

(***************************************************************************)
(* The corrector                                                           *)
(***************************************************************************)

VARIABLES
    input,        \* the raw OCR text of the page
    arg,          \* the argument of the call of correct in progress
    text,         \* the variable text of correct and _apply_rules
    k,            \* the index in RULES of the loop of _apply_rules
    pc,           \* "rules", "ids" or "done"
    rule_hits,    \* PageCorrector.rule_hits
    id_changes,   \* PageCorrector.id_changes
    total_fixes,  \* PageCorrector.total_fixes
    rules_out,    \* history: what _apply_rules returned in this call
    run,          \* "first", "again" (same corrector, same text) or
                  \* "fresh" (a new corrector on the first call's result)
    first         \* history: the result and the report of the first call

vars == <<input, arg, text, k, pc, rule_hits, id_changes, total_fixes,
          rules_out, run, first>>

\* The state of one iteration of the loop of build_pdf (ria.py) and of
\* build_searchable_pdf (ocr_app.py), with its call of
\* _insert_invisible_text.
VARIABLES
    png,          \* the page image: pil.size and pil.info.get("dpi")
    page_text,    \* the text of the page, one entry per line of splitlines()
    w_pt,         \* page width in points, a fraction <<numerator, denominator>>
    h_pt,         \* page height in points, a fraction
    image_rect,   \* the rectangle given to insert_image
    lines,        \* the list lines of _insert_invisible_text
    step,         \* the line pitch, a fraction
    line_i,       \* the loop index i of _insert_invisible_text
    placed,       \* the insert_text calls that returned, in order
    lpc           \* "image", "text", "loop", "end" or "idle"

layout_vars == <<png, page_text, w_pt, h_pt, image_rect, lines, step,
                 line_i, placed, lpc>>

Zero == <<0, 1>>

NoImage == [w_px |-> 0, h_px |-> 0, dpi |-> [kind |-> "none", x |-> 0, y |-> 0]]

\* no page is being composed
LayoutIdle ==
    /\ png = NoImage
    /\ page_text = <<>>
    /\ w_pt = Zero
    /\ h_pt = Zero
    /\ image_rect = <<Zero, Zero, Zero, Zero>>
    /\ lines = <<>>
    /\ step = Zero
    /\ line_i = 0
    /\ placed = <<>>
    /\ lpc = "idle"

\* The state of a batch: the folder loop of main (ria.py) and the worker
\* thread of the GUI (ocr_app.py: App._start, _stop, _worker_fn), with the
\* call of process_file in progress.
VARIABLES
    mode,           \* "cli" (ria.py main) or "gui" (ocr_app.py App)
    docs,           \* the documents: docs[d] is the number of pages of d
    save_md,        \* args.md / md_var
    files,          \* the list the batch loop runs over
    fidx,           \* the position of the loop in files
    bpc,            \* "idle", "check", "ocr", "wait", "build", "finished"
    page_no,        \* the page of the loop of process_file (i + 1)
    pages_markdown, \* corrected_texts (ria.py) / pages_markdown (ocr_app.py)
    out_pdf,        \* out_pdf[d]: the PDF saved for d
    out_md,         \* out_md[d]: the markdown file written for d
    status,         \* the status column of the file table
    after_q,        \* the callbacks given to self.after(0, ...), in order
    stop_event,     \* App._stop_event
    run_btn,        \* the Process All button is enabled
    stop_btn,       \* the Stop button is enabled
    done,           \* the counter done of _worker_fn
    errors,         \* the counter errors of _worker_fn
    runs,           \* history: the number of batches started
    ocr_calls,      \* history: the OCR calls of this batch
    builder_calls,  \* history: the builder calls of this batch
    reported,       \* history: the documents this batch reported as failed
    stopped_at,     \* history: the position at which the loop broke, or 0
    stop_between    \* history: the stop event was set when the page in
                    \* progress began (at the stop check for a first page,
                    \* at the return of the call before for a later page)

batch_vars == <<mode, docs, save_md, files, fidx, bpc, page_no,
                pages_markdown, out_pdf, out_md, status, after_q, stop_event,
                run_btn, stop_btn, done, errors, runs, ocr_calls,
                builder_calls, reported, stopped_at, stop_between>>

\* no batch exists
BatchIdle ==
    /\ mode = "none"
    /\ docs = <<>>
    /\ save_md = FALSE
    /\ files = <<>>
    /\ fidx = 1
    /\ bpc = "none"
    /\ page_no = 1
    /\ pages_markdown = <<>>
    /\ out_pdf = <<>>
    /\ out_md = <<>>
    /\ status = <<>>
    /\ after_q = <<>>
    /\ stop_event = FALSE
    /\ run_btn = FALSE
    /\ stop_btn = FALSE
    /\ done = 0
    /\ errors = 0
    /\ runs = 0
    /\ ocr_calls = <<>>
    /\ builder_calls = <<>>
    /\ reported = <<>>
    /\ stopped_at = 0
    /\ stop_between = FALSE

NoReport == [text |-> "", rule_hits |-> <<>>, id_changes |-> <<>>,
             total_fixes |-> 0]

\* PageCorrector(page_num), and correct(input) about to run
Init ==
    /\ input \in Inputs
    /\ arg = input
    /\ text = input
    /\ k = 1
    /\ pc = "rules"
    /\ rule_hits = <<>>
    /\ id_changes = <<>>
    /\ total_fixes = 0
    /\ rules_out = ""
    /\ run = "first"
    /\ first = NoReport
    /\ LayoutIdle
    /\ BatchIdle

\* The loop body without "text = new_text": the hit is reported and the
\* next rule scans the text as it was.
RuleIter_NoCarry(rule, st) ==
    LET r == subn(rule, st.text)
    IN  IF r.n # 0
        THEN [text        |-> st.text,
              rule_hits   |-> Append(st.rule_hits,
                                     <<rule.pattern, rule.repl, rule.label, r.n>>),
              total_fixes |-> st.total_fixes + r.n]
        ELSE st

\* The loop body without "if n:": a rule with no match is reported too.
RuleIter_AlwaysReports(rule, st) ==
    LET r == subn(rule, st.text)
    IN  [text        |-> r.text,
         rule_hits   |-> Append(st.rule_hits,
                                <<rule.pattern, rule.repl, rule.label, r.n>>),
         total_fixes |-> st.total_fixes + r.n]

\* the body of the loop of _apply_rules for one rule, on
\* st = [text, rule_hits, total_fixes]
RuleIter(rule, st) ==
    LET r == subn(rule, st.text)
    IN  IF r.n # 0
        THEN [text        |-> r.text,
              rule_hits   |-> Append(st.rule_hits,
                                     <<rule.pattern, rule.repl, rule.label, r.n>>),
              total_fixes |-> st.total_fixes + r.n]
        ELSE st

\* one iteration of the loop of _apply_rules; the last one returns text
_apply_rules ==
    /\ pc = "rules"
    /\ LET st == RuleIter(RULES[k], [text |-> text, rule_hits |-> rule_hits,
                                     total_fixes |-> total_fixes])
       IN  /\ text' = st.text
           /\ rule_hits' = st.rule_hits
           /\ total_fixes' = st.total_fixes
           /\ IF k = Len(RULES)
              THEN /\ pc' = "ids"
                   /\ rules_out' = st.text
                   /\ k' = k
              ELSE /\ pc' = "rules"
                   /\ rules_out' = rules_out
                   /\ k' = k + 1
    /\ UNCHANGED <<input, arg, id_changes, run, first>>
    /\ UNCHANGED <<layout_vars, batch_vars>>

\* the callback without "if fixed_id != raw_id": every match counts
_sub_CountsEveryMatch(s, m, acc) ==
    LET raw_id == MatchText(s, m)
        fix    == _fix_doc_id(s, m)
    IN  [reps        |-> Append(acc.reps, fix.id),
         id_changes  |-> Append(acc.id_changes,
                                <<raw_id, fix.id, fix.changes>>),
         total_fixes |-> acc.total_fixes + 1]

\* the callback _sub of _apply_id_fixes for match m of s, on
\* acc = [reps, id_changes, total_fixes]; reps collects what it returns
_sub(s, m, acc) ==
    LET raw_id == MatchText(s, m)
        fix    == _fix_doc_id(s, m)
    IN  IF fix.id # raw_id
        THEN [reps        |-> Append(acc.reps, fix.id),
              id_changes  |-> Append(acc.id_changes,
                                     <<raw_id, fix.id, fix.changes>>),
              total_fixes |-> acc.total_fixes + 1]
        ELSE [acc EXCEPT !.reps = Append(acc.reps, fix.id)]

RECURSIVE SubAll(_, _, _, _)
SubAll(s, ms, i, acc) ==
    IF i > Len(ms)
    THEN acc
    ELSE SubAll(s, ms, i + 1, _sub(s, ms[i], acc))

\* DOC_ID_RE.sub(_sub, text)
_apply_id_fixes ==
    /\ pc = "ids"
    /\ LET ms  == FindAll(DOC_ID_RE, text, 1)
           acc == SubAll(text, ms, 1, [reps |-> <<>>, id_changes |-> id_changes,
                                       total_fixes |-> total_fixes])
       IN  /\ text' = Splice(text, ms, acc.reps, 1, 1)
           /\ id_changes' = acc.id_changes
           /\ total_fixes' = acc.total_fixes
    /\ pc' = "done"
    /\ UNCHANGED <<input, arg, k, rule_hits, rules_out, run, first>>
    /\ UNCHANGED <<layout_vars, batch_vars>>

Report == [text |-> text, rule_hits |-> rule_hits, id_changes |-> id_changes,
           total_fixes |-> total_fixes]

\* correct(input) a second time on the same corrector
CorrectAgain ==
    /\ pc = "done"
    /\ run = "first"
    /\ first' = Report
    /\ run' = "again"
    /\ arg' = input
    /\ text' = input
    /\ k' = 1
    /\ pc' = "rules"
    /\ rules_out' = ""
    /\ UNCHANGED <<input, rule_hits, id_changes, total_fixes>>
    /\ UNCHANGED <<layout_vars, batch_vars>>

\* PageCorrector(page_num).correct(text): a new corrector on the result
CorrectResult ==
    /\ pc = "done"
    /\ run = "first"
    /\ first' = Report
    /\ run' = "fresh"
    /\ arg' = text
    /\ text' = text
    /\ k' = 1
    /\ pc' = "rules"
    /\ rules_out' = ""
    /\ rule_hits' = <<>>
    /\ id_changes' = <<>>
    /\ total_fixes' = 0
    /\ UNCHANGED input
    /\ UNCHANGED <<layout_vars, batch_vars>>

Next ==
    \/ _apply_rules
    \/ _apply_id_fixes
    \/ CorrectAgain
    \/ CorrectResult

Spec == Init /\ [][Next]_<<vars, layout_vars, batch_vars>>

\* ------------------------------------------------------------------
\* Page composition: build_pdf / build_searchable_pdf and
\* _insert_invisible_text.  Lengths in points are fractions
\* <<numerator, denominator>> with a positive denominator, in lowest
\* terms; the arithmetic on them is exact.

Abs(n) == IF n < 0 THEN -n ELSE n

RECURSIVE GCD(_, _)
GCD(a, b) == IF b = 0 THEN a ELSE GCD(b, a % b)

\* n / d for d > 0
Rat(n, d) == LET g == GCD(Abs(n), d) IN <<n \div g, d \div g>>

RInt(n) == <<n, 1>>

RAdd(a, b) == Rat(a[1] * b[2] + b[1] * a[2], a[2] * b[2])

RSub(a, b) == Rat(a[1] * b[2] - b[1] * a[2], a[2] * b[2])

\* a * n and a / n for an integer n (n > 0 in RDivInt)
RMulInt(a, n) == Rat(a[1] * n, a[2])

RDivInt(a, n) == Rat(a[1], a[2] * n)

RLe(a, b) == a[1] * b[2] <= b[1] * a[2]

RLt(a, b) == a[1] * b[2] < b[1] * a[2]

font_size == 10

\* font_size * 1.4
line_h == (font_size * 14) \div 10

margin_x == 10

margin_y == 20

\* the default of pil.info.get("dpi", (96, 96)) and of "or 96"
DefaultDpi == 96

PointsPerInch == 72

\* dpi_val: the first entry of a tuple, or the value itself, or 96 when
\* that is 0; the key "dpi" missing gives (96, 96)
dpi_val(img) ==
    LET dpi_info == IF img.dpi.kind = "none"
                    THEN [kind |-> "tuple", x |-> DefaultDpi, y |-> DefaultDpi]
                    ELSE img.dpi
        v == dpi_info.x
    IN  IF v = 0 THEN DefaultDpi ELSE v

\* w_pt, h_pt = w_px * 72 / dpi_val, h_px * 72 / dpi_val
PointSize(img) ==
    [w |-> Rat(img.w_px * PointsPerInch, dpi_val(img)),
     h |-> Rat(img.h_px * PointsPerInch, dpi_val(img))]

\* [l for l in text.splitlines() if l.strip()], each line with its number
RECURSIVE NonBlank(_, _)
NonBlank(t, j) ==
    IF j > Len(t) THEN <<>>
    ELSE IF t[j] = "blank" THEN NonBlank(t, j + 1)
    ELSE <<[no |-> j, kind |-> t[j]]>> \o NonBlank(t, j + 1)

\* usable_h = h_pt - margin_y * 2
usable_h(h) == RSub(h, RInt(margin_y * 2))

\* natural pitch although the lines fit only without the two margins
StepOf_NoMargins(h, n) ==
    IF RLe(RInt(n * line_h), h) THEN RInt(line_h)
    ELSE RDivInt(usable_h(h), n)

\* step = line_h if len(lines) * line_h <= usable_h else usable_h / len(lines)
StepOf(h, n) ==
    IF RLe(RInt(n * line_h), usable_h(h)) THEN RInt(line_h)
    ELSE RDivInt(usable_h(h), n)

\* y = margin_y + i * step + font_size
YOf(st, j) == RAdd(RAdd(RInt(margin_y), RMulInt(st, j)), RInt(font_size))

\* a loop that stops only below the page: y > h_pt
Overflows_PageEdge(h, y) == RLt(h, y)

\* y > h_pt - margin_y
Overflows(h, y) == RLt(RSub(h, RInt(margin_y)), y)

\* the longest page text, in lines
MaxLines == 5

\* page heights in pixels are 4 * 7 .. 4 * MaxH4
MaxH4 == 30

HeightsPx == {4 * j : j \in 7..MaxH4}

WidthsPx == {96}

Dpi(kind, x, y) == [kind |-> kind, x |-> x, y |-> y]

\* no "dpi" key, square and non-square tuples, a single number, and 0
DpiInfos ==
    {Dpi("none", 0, 0), Dpi("tuple", 72, 72), Dpi("tuple", 72, 144),
     Dpi("tuple", 144, 72), Dpi("scalar", 96, 0), Dpi("tuple", 0, 0)}

Images ==
    {[w_px |-> w, h_px |-> h, dpi |-> d] :
        w \in WidthsPx, h \in HeightsPx, d \in DpiInfos}

\* a line is blank, or insert_text takes it ("ok"), or insert_text raises
\* on it ("bad")
LineKinds == {"ok", "blank", "bad"}

PageTexts == UNION {[1..n -> LineKinds] : n \in 0..MaxLines}

\* the corrector is not running
CorrectorIdle ==
    /\ input = ""
    /\ arg = ""
    /\ text = ""
    /\ k = 1
    /\ pc = "idle"
    /\ rule_hits = <<>>
    /\ id_changes = <<>>
    /\ total_fixes = 0
    /\ rules_out = ""
    /\ run = "idle"
    /\ first = NoReport

\* the loop of build_pdf has taken (png, page_text) from zip
InitLayout ==
    /\ CorrectorIdle
    /\ png \in Images
    /\ page_text \in PageTexts
    /\ w_pt = Zero
    /\ h_pt = Zero
    /\ image_rect = <<Zero, Zero, Zero, Zero>>
    /\ lines = <<>>
    /\ step = Zero
    /\ line_i = 0
    /\ BatchIdle
    /\ placed = <<>>
    /\ lpc = "image"

\* build_pdf, from Image.open to insert_image
new_page ==
    /\ lpc = "image"
    /\ w_pt' = PointSize(png).w
    /\ h_pt' = PointSize(png).h
    /\ image_rect' = <<Zero, Zero, PointSize(png).w, PointSize(png).h>>
    /\ lpc' = "text"
    /\ UNCHANGED <<png, page_text, lines, step, line_i, placed>>
    /\ UNCHANGED <<vars, batch_vars>>

\* _insert_invisible_text up to its loop: return when no line is left
_insert_invisible_text ==
    /\ lpc = "text"
    /\ lines' = NonBlank(page_text, 1)
    /\ IF lines' = <<>>
       THEN /\ lpc' = "end"
            /\ step' = step
       ELSE /\ lpc' = "loop"
            /\ step' = StepOf(h_pt, Len(lines'))
    /\ line_i' = 0
    /\ UNCHANGED <<png, page_text, w_pt, h_pt, image_rect, placed>>
    /\ UNCHANGED <<vars, batch_vars>>

\* one iteration of "for i, line in enumerate(lines)"
InsertLine ==
    /\ lpc = "loop"
    /\ IF line_i >= Len(lines)
       THEN /\ lpc' = "end"
            /\ UNCHANGED <<line_i, placed>>
       ELSE LET line == lines[line_i + 1]
                y == YOf(step, line_i)
            IN  IF Overflows(h_pt, y)
                THEN /\ lpc' = "end"
                     /\ UNCHANGED <<line_i, placed>>
                ELSE /\ placed' =
                            IF line.kind = "bad" THEN placed
                            ELSE Append(placed, [no |-> line.no,
                                                 x |-> RInt(margin_x),
                                                 y |-> y,
                                                 fontsize |-> font_size])
                     /\ line_i' = line_i + 1
                     /\ lpc' = "loop"
    /\ UNCHANGED <<png, page_text, w_pt, h_pt, image_rect, lines, step>>
    /\ UNCHANGED <<vars, batch_vars>>

NextLayout ==
    \/ new_page
    \/ _insert_invisible_text
    \/ InsertLine

SpecLayout == InitLayout /\ [][NextLayout]_<<vars, layout_vars, batch_vars>>

\* ------------------------------------------------------------------
\* Batches: main (ria.py, folder mode), App._start / _stop / _worker_fn
\* (ocr_app.py), and process_file of both programs.

\* the most documents of a batch
MaxFiles == 2

\* the most pages of a document
MaxPages == 2

\* the most batches started from the GUI
MaxRuns == 2

Docs == UNION {[1..n -> 1..MaxPages] : n \in 1..MaxFiles}

\* what one OCR call does: it returns markdown (or nothing, which
\* process_file takes as ""), or it raises
OcrResults == {"text", "raise"}

NoPdf == [saved |-> FALSE, run |-> 0, pages |-> <<>>]

\* main with a folder of PDFs, or the GUI with its rows, all Pending
InitBatch ==
    /\ CorrectorIdle
    /\ LayoutIdle
    /\ mode \in {"cli", "gui"}
    /\ docs \in Docs
    /\ save_md \in BOOLEAN
    /\ files = <<>>
    /\ fidx = 1
    /\ bpc = "idle"
    /\ page_no = 1
    /\ pages_markdown = <<>>
    /\ out_pdf = [d \in 1..Len(docs) |-> NoPdf]
    /\ out_md = [d \in 1..Len(docs) |-> FALSE]
    /\ status = [d \in 1..Len(docs) |-> "Pending"]
    /\ after_q = <<>>
    /\ stop_event = FALSE
    /\ run_btn = (mode = "gui")
    /\ stop_btn = FALSE
    /\ done = 0
    /\ errors = 0
    /\ runs = 0
    /\ ocr_calls = <<>>
    /\ builder_calls = <<>>
    /\ reported = <<>>
    /\ stopped_at = 0
    /\ stop_between = FALSE

\* a Process All that takes every row, whatever its status
NotDone_All(st, d) == [j \in 1..(Len(st) - d + 1) |-> d + j - 1]

\* the rows d.. whose status is not "Done", in table order
RECURSIVE NotDone(_, _)
NotDone(st, d) ==
    IF d > Len(st) THEN <<>>
    ELSE (IF st[d] # "Done" THEN <<d>> ELSE <<>>) \o NotDone(st, d + 1)

\* self.after(0, ...) from _set_status and from the end of _worker_fn;
\* main has no table and no event loop
_set_status(q, d, s) ==
    IF mode = "gui" THEN Append(q, [fn |-> "_apply_status", iid |-> d, s |-> s])
    ELSE q

\* zip(png_pages, texts): one output page per pair
Zip(images, texts) ==
    [p \in 1..(IF Len(images) <= Len(texts) THEN Len(images) ELSE Len(texts))
        |-> [image |-> images[p], text |-> texts[p]]]

\* the page images of document d, from flatten_pdf
Images_of(d) == [p \in 1..docs[d] |-> <<d, p>>]

\* a loop that puts each page's text in front of the list
AppendText_Prepend(texts, t) == <<t>> \o texts

\* corrected_texts.append(fixed) / pages_markdown.append(md_text)
AppendText(texts, t) == Append(texts, t)

\* an except clause that leaves the batch loop
AfterError_Abort(pos, n) == n + 1

\* except Exception: report, and go on with the next document
AfterError(pos, n) == pos + 1

\* a page loop that catches the exception and goes on to the next page
OcrRaises_Swallowed(res) == FALSE

\* the OCR call raises: nothing in process_file catches it
OcrRaises(res) == res = "raise"

\* main, folder mode: the loop over pdfs is about to start
main ==
    /\ mode = "cli"
    /\ bpc = "idle"
    /\ runs = 0
    /\ files' = [d \in 1..Len(docs) |-> d]
    /\ fidx' = 1
    /\ bpc' = "check"
    /\ runs' = 1
    /\ UNCHANGED <<mode, docs, save_md, page_no, pages_markdown, out_pdf,
                   out_md, status, after_q, stop_event, run_btn, stop_btn,
                   done, errors, ocr_calls, builder_calls, reported,
                   stopped_at, stop_between>>
    /\ UNCHANGED <<vars, layout_vars>>

\* App._start: Process All is pressed and there is a row not "Done"
_start ==
    /\ mode = "gui"
    /\ run_btn
    /\ runs < MaxRuns
    /\ NotDone(status, 1) # <<>>
    /\ files' = NotDone(status, 1)
    /\ stop_event' = FALSE
    /\ run_btn' = FALSE
    /\ stop_btn' = TRUE
    /\ fidx' = 1
    /\ done' = 0
    /\ errors' = 0
    /\ stopped_at' = 0
    /\ bpc' = "check"
    /\ runs' = runs + 1
    /\ ocr_calls' = <<>>
    /\ builder_calls' = <<>>
    /\ reported' = <<>>
    /\ UNCHANGED <<mode, docs, save_md, page_no, pages_markdown, out_pdf,
                   out_md, status, after_q, stop_between>>
    /\ UNCHANGED <<vars, layout_vars>>

\* App._stop: Stop is pressed
_stop ==
    /\ mode = "gui"
    /\ stop_btn
    /\ stop_event' = TRUE
    /\ stop_btn' = FALSE
    /\ UNCHANGED <<mode, docs, save_md, files, fidx, bpc, page_no,
                   pages_markdown, out_pdf, out_md, status, after_q, run_btn,
                   done, errors, runs, ocr_calls, builder_calls, reported,
                   stopped_at, stop_between>>
    /\ UNCHANGED <<vars, layout_vars>>

\* the head of the batch loop: "for src in pdfs" (main) and "for path in
\* files", with its stop check (_worker_fn); then process_file up to its
\* page loop, or the lines after the loop
_worker_fn ==
    /\ bpc = "check"
    /\ IF fidx > Len(files) \/ (mode = "gui" /\ stop_event)
       THEN /\ bpc' = "finished"
            /\ stopped_at' = IF fidx > Len(files) THEN stopped_at ELSE fidx
            /\ after_q' =
                 IF mode = "gui"
                 THEN Append(after_q, [fn |-> "_on_done", iid |-> 0,
                                       s |-> IF stop_event THEN "stopped"
                                             ELSE "finished"])
                 ELSE after_q
            /\ UNCHANGED <<page_no, pages_markdown, stop_between>>
       ELSE /\ bpc' = "ocr"
            /\ stop_between' = stop_event
            /\ after_q' = _set_status(after_q, files[fidx], "Processing")
            /\ page_no' = 1
            /\ pages_markdown' = <<>>
            /\ UNCHANGED stopped_at
    /\ UNCHANGED <<mode, docs, save_md, files, fidx, out_pdf, out_md, status,
                   stop_event, run_btn, stop_btn, done, errors, runs,
                   ocr_calls, builder_calls, reported>>
    /\ UNCHANGED <<vars, layout_vars>>

\* process_file: the OCR request for the page is sent
OcrCall ==
    /\ bpc = "ocr"
    /\ ocr_calls' = Append(ocr_calls,
                           [run |-> runs, file |-> files[fidx],
                            page |-> page_no, stop |-> stop_between,
                            res |-> "pending"])
    /\ bpc' = "wait"
    /\ UNCHANGED <<mode, docs, save_md, files, fidx, page_no, pages_markdown,
                   out_pdf, out_md, status, after_q, stop_event, run_btn,
                   stop_btn, done, errors, runs, builder_calls, reported,
                   stopped_at, stop_between>>
    /\ UNCHANGED <<vars, layout_vars>>

\* process_file: the OCR call returns or raises; the rest of the loop body,
\* and on an exception the except clause of the batch loop
OcrReturn ==
    /\ bpc = "wait"
    /\ \E res \in OcrResults :
         /\ ocr_calls' = [ocr_calls EXCEPT ![Len(ocr_calls)].res = res]
         /\ IF OcrRaises(res)
            THEN /\ reported' = Append(reported,
                                       [run |-> runs, file |-> files[fidx]])
                 /\ after_q' = _set_status(after_q, files[fidx], "Error")
                 /\ errors' = errors + 1
                 /\ fidx' = AfterError(fidx, Len(files))
                 /\ bpc' = "check"
                 /\ UNCHANGED <<page_no, pages_markdown, stop_between>>
            ELSE /\ stop_between' = stop_event
                 /\ pages_markdown' =
                      AppendText(pages_markdown,
                                 [file |-> files[fidx], page |-> page_no,
                                  md |-> res])
                 /\ IF page_no < docs[files[fidx]]
                    THEN /\ page_no' = page_no + 1
                         /\ bpc' = "ocr"
                    ELSE /\ page_no' = page_no
                         /\ bpc' = "build"
                 /\ UNCHANGED <<reported, after_q, errors, fidx>>
    /\ UNCHANGED <<mode, docs, save_md, files, out_pdf, out_md, status,
                   stop_event, run_btn, stop_btn, done, runs, builder_calls,
                   stopped_at>>
    /\ UNCHANGED <<vars, layout_vars>>

\* process_file after its page loop: build_pdf / build_searchable_pdf, the
\* markdown file, and the return to the batch loop
build_pdf ==
    /\ bpc = "build"
    /\ LET d == files[fidx]
       IN  /\ builder_calls' =
                Append(builder_calls,
                       [run |-> runs, file |-> d,
                        images |-> Len(Images_of(d)),
                        texts |-> Len(pages_markdown)])
           /\ out_pdf' = [out_pdf EXCEPT
                            ![d] = [saved |-> TRUE, run |-> runs,
                                    pages |-> Zip(Images_of(d),
                                                  pages_markdown)]]
           /\ out_md' = [out_md EXCEPT ![d] = out_md[d] \/ save_md]
           /\ after_q' = _set_status(after_q, d, "Done")
    /\ done' = done + 1
    /\ fidx' = fidx + 1
    /\ bpc' = "check"
    /\ UNCHANGED <<mode, docs, save_md, files, page_no, pages_markdown,
                   status, stop_event, run_btn, stop_btn, errors, runs,
                   ocr_calls, reported, stopped_at, stop_between>>
    /\ UNCHANGED <<vars, layout_vars>>

\* the event loop runs a callback of _set_status
_apply_status ==
    /\ after_q # <<>>
    /\ Head(after_q).fn = "_apply_status"
    /\ status' = [status EXCEPT ![Head(after_q).iid] = Head(after_q).s]
    /\ after_q' = Tail(after_q)
    /\ UNCHANGED <<mode, docs, save_md, files, fidx, bpc, page_no,
                   pages_markdown, out_pdf, out_md, stop_event, run_btn,
                   stop_btn, done, errors, runs, ocr_calls, builder_calls,
                   reported, stopped_at, stop_between>>
    /\ UNCHANGED <<vars, layout_vars>>

\* the event loop runs the callback of the end of _worker_fn
_on_done ==
    /\ after_q # <<>>
    /\ Head(after_q).fn = "_on_done"
    /\ run_btn' = TRUE
    /\ stop_btn' = FALSE
    /\ after_q' = Tail(after_q)
    /\ UNCHANGED <<mode, docs, save_md, files, fidx, bpc, page_no,
                   pages_markdown, out_pdf, out_md, status, stop_event, done,
                   errors, runs, ocr_calls, builder_calls, reported,
                   stopped_at, stop_between>>
    /\ UNCHANGED <<vars, layout_vars>>

NextBatch ==
    \/ main
    \/ _start
    \/ _stop
    \/ _worker_fn
    \/ OcrCall
    \/ OcrReturn
    \/ build_pdf
    \/ _apply_status
    \/ _on_done

SpecBatch == InitBatch /\ [][NextBatch]_<<vars, layout_vars, batch_vars>>

(***************************************************************************)
(* What the claims are stated with                                         *)
(***************************************************************************)

NRules == Len(RULES)

\* the texts rules 1..n scan when the table is applied to s in order:
\* rule 1 scans s, and rule j+1 scans what rule j made of its text
RECURSIVE Scanned(_, _)
Scanned(s, n) ==
    IF n = 1
    THEN <<s>>
    ELSE LET sc == Scanned(s, n - 1)
         IN  Append(sc, subn(RULES[n - 1], sc[n - 1]).text)

\* the left-to-right fold of "replace every match" over the table
FoldRules(s) == subn(RULES[NRules], Scanned(s, NRules)[NRules]).text

\* the number of matches rule j finds in the text it scans
HitCount(sc, j) == Len(FindAll(RULES[j].pat, sc[j], 1))

\* the report entries of rules j.. over the scanned texts sc: one for
\* each rule with a match, in table order
RECURSIVE ExpectedHits(_, _)
ExpectedHits(sc, j) ==
    IF j > NRules
    THEN <<>>
    ELSE (IF HitCount(sc, j) > 0
          THEN <<<<RULES[j].pattern, RULES[j].repl, RULES[j].label,
                   HitCount(sc, j)>>>>
          ELSE <<>>) \o ExpectedHits(sc, j + 1)

HitPatterns == {rule_hits[i][1] : i \in 1..Len(rule_hits)}

\* the characters the matches ms[i..] that end at or before pos lose when
\* each is replaced by a text of length len
RECURSIVE Shrink(_, _, _, _)
Shrink(ms, len, pos, i) ==
    IF i > Len(ms)
    THEN 0
    ELSE (IF MatchEnd(ms[i]) <= pos THEN Sum(ms[i].lens) - len ELSE 0)
            + Shrink(ms, len, pos, i + 1)

\* where the character at pos of the text rule j scans stands in the text
\* _apply_rules returns: each replacement to its left moves it
RECURSIVE Track(_, _, _)
Track(sc, pos, j) ==
    IF j > NRules
    THEN pos
    ELSE Track(sc,
               pos - Shrink(FindAll(RULES[j].pat, sc[j], 1),
                            Len(RULES[j].repl), pos, 1),
               j + 1)

\* rule n's replacement of its match m is still there in out
Survives(sc, n, m, out) ==
    LET at == Track(sc, m.start, n + 1)
    IN  SubSeq(out, at, at + Len(RULES[n].repl) - 1) = RULES[n].repl

Tier1 == {1, 2}

\* what a Digit field makes of one character
DigitChar(c) ==
    CASE c \in {"O", "o"}      -> "0"
      [] c \in {"I", "l", "L"} -> "1"
      [] OTHER                 -> c

\* the number of hyphens of s from a to b
Hyphens(s, a, b) == Cardinality({q \in a..b : Ch(s, q) = "-"})

\* position i of s lies in field 1 or field 7 of one of the matches ms
InDigitField(s, ms, i) ==
    \E j \in 1..Len(ms) :
        /\ ms[j].start <= i
        /\ i < MatchEnd(ms[j])
        /\ Ch(s, i) # "-"
        /\ Hyphens(s, ms[j].start, i) \in {0, 6}

\* the position of the n-th hyphen of s; 0 for n = 0, and one past the end
\* when s has fewer
Bnd(s, n) ==
    LET H == {q \in 1..Len(s) : Ch(s, q) = "-"}
    IN  IF n = 0 THEN 0
        ELSE IF n > Cardinality(H) THEN Len(s) + 1
        ELSE CHOOSE q \in H : Cardinality({r \in H : r < q}) = n - 1

\* the g-th of the hyphen-separated fields of s
Field(s, g) == SubSeq(s, Bnd(s, g - 1) + 1, Bnd(s, g) - 1)

NFields(s) == Hyphens(s, 1, Len(s)) + 1

\* s is one identifier and nothing else
WholeId(s) ==
    LET m == MatchAt(DOC_ID_RE, s, 1)
    IN  m # NoMatch /\ Sum(m) = Len(s)

\* the fields the claims call Mixed
Mixed == 2..6

LETTER == UPPER \cup LOWER

Least(a, b) == IF a <= b THEN a ELSE b

\* the sum of the counts of the report entries hits[i..]
RECURSIVE SumCounts(_, _)
SumCounts(hits, i) ==
    IF i > Len(hits) THEN 0 ELSE hits[i][4] + SumCounts(hits, i + 1)

\* the matches of ms that the identifier pass rewrote: before is the text
\* it scanned, after the text it returned (of the same length)
Rewritten(before, after, ms) ==
    {j \in 1..Len(ms) : MatchText(after, ms[j]) # MatchText(before, ms[j])}

RawId7 == "26437-RIA-OOI-DR-CLG-PC-O0205"

FixedId7 == "26437-RIA-001-DR-CLG-PC-00205"

(***************************************************************************)
(* The claims                                                              *)
(***************************************************************************)

\* C1: correcting a corrected text changes nothing: a new corrector run on
\* the result of correct returns that result.
C1_Idempotent ==
    (pc = "done" /\ run = "fresh") => text = arg

\* C2: a corrected text has no further hits: a new corrector run on the
\* result of correct ends with an empty report.
C2_NoFurtherHits ==
    (pc = "done" /\ run = "fresh") =>
        /\ rule_hits = <<>>
        /\ id_changes = <<>>
        /\ total_fixes = 0

\* C3: _apply_rules returns the left-to-right fold of the table over its
\* argument: rule k is matched against what rules 1..k-1 produced.
C3_TableOrderFold ==
    pc = "ids" => (text = FoldRules(arg) /\ rules_out = text)

\* a later rule hit only because an earlier one rewrote the text
C3_Witness ==
    /\ pc = "ids"
    /\ "OOI" \in HitPatterns
    /\ "040" \in HitPatterns
    /\ subn(RULES[10], arg).n = 0

\* C4: what a tier-1 rule put in place of a match is still at that place
\* in the text _apply_rules returns.
C4_Tier1Survives ==
    pc = "ids" =>
        LET sc == Scanned(arg, NRules)
        IN  \A n \in Tier1 :
                LET ms == FindAll(RULES[n].pat, sc[n], 1)
                IN  \A i \in 1..Len(ms) : Survives(sc, n, ms[i], text)

\* C5: after _apply_rules on a new corrector, rule_hits has one entry for
\* each rule that matched and none for the others, in table order, each
\* with the number of matches the rule found in the text it scanned.
C5_RuleHits ==
    (pc = "ids" /\ run # "again") =>
        rule_hits = ExpectedHits(Scanned(arg, NRules), 1)

\* some rules hit, one of them twice, and some rule did not
C5_Witness ==
    /\ pc = "ids"
    /\ run = "first"
    /\ Len(rule_hits) >= 2
    /\ Len(rule_hits) < NRules
    /\ \E i \in 1..Len(rule_hits) : rule_hits[i][4] >= 2

\* C6: _apply_id_fixes rewrites exactly the characters of fields 1 and 7
\* of each match of DOC_ID_RE, O and o to 0 and I, l and L to 1; fields
\* 2-6, the hyphens and the text outside the matches stay as they were.
C6_IdFixes ==
    pc = "done" =>
        LET ms == FindAll(DOC_ID_RE, rules_out, 1)
        IN  /\ Len(text) = Len(rules_out)
            /\ \A i \in 1..Len(text) :
                   Ch(text, i) = IF InDigitField(rules_out, ms, i)
                                 THEN DigitChar(Ch(rules_out, i))
                                 ELSE Ch(rules_out, i)

\* two identifiers were matched, an L of a Digit field became 1 and an l
\* of a Mixed field stayed
C6_Witness ==
    /\ pc = "done"
    /\ Len(FindAll(DOC_ID_RE, rules_out, 1)) = 2
    /\ \E i \in 1..Len(text) : Ch(rules_out, i) = "L" /\ Ch(text, i) = "1"
    /\ \E i \in 1..Len(text) : Ch(rules_out, i) = "l" /\ Ch(text, i) = "l"

\* C7 as stated: the identifier 26437-RIA-OOI-DR-CLG-PC-O0205 comes out as
\* 26437-RIA-001-DR-CLG-PC-00205 and its identifier change lists two field
\* edits, OOI -> 001 and O0205 -> 00205.
C7_TwoFieldEdits ==
    (pc = "done" /\ run = "first" /\ input = RawId7) =>
        /\ text = FixedId7
        /\ Len(id_changes) = 1
        /\ id_changes[1][3] = << <<"OOI", "001">>, <<"O0205", "00205">> >>

\* C7 amended: the identifier comes out as 26437-RIA-001-DR-CLG-PC-00205;
\* its identifier change lists one field edit, O0205 -> 00205, and the
\* edit OOI -> 001 is a hit of the rule table; the report counts 2 fixes.
C7_RuleHitAndOneFieldEdit ==
    (pc = "done" /\ run = "first" /\ input = RawId7) =>
        /\ text = FixedId7
        /\ rule_hits = << <<"OOI", "001", "OOI -> 001", 1>> >>
        /\ id_changes = << <<"26437-RIA-001-DR-CLG-PC-O0205", FixedId7,
                             << <<"O0205", "00205">> >> >> >>
        /\ total_fixes = 2

C7_Witness ==
    /\ pc = "done"
    /\ run = "first"
    /\ input = RawId7
    /\ text # input

\* C8 as stated: correct returns an identifier with no digit in a Mixed
\* field (fields 2-6) where the input had a letter.
C8_MixedNeverDigit ==
    (pc = "done" /\ run = "first" /\ WholeId(input)) =>
        \A g \in Mixed :
            \A i \in 1..Least(Len(Field(input, g)), Len(Field(text, g))) :
                Ch(Field(input, g), i) \in LETTER =>
                    Ch(Field(text, g), i) \notin DIGIT

\* C8 amended: the identifier pass returns fields 2-6 of every match as
\* they were (only the rule table rewrites a Mixed field), and correct
\* returns a field 8lR as 8lR.
C8_IdPassKeepsMixed ==
    pc = "done" =>
        /\ LET ms == FindAll(DOC_ID_RE, rules_out, 1)
           IN  \A j \in 1..Len(ms) : \A g \in Mixed :
                   Group(text, ms[j], g) = Group(rules_out, ms[j], g)
        /\ NFields(text) = NFields(arg)
        /\ \A g \in 1..NFields(arg) :
               Field(arg, g) = "8lR" => Field(text, g) = "8lR"

\* an identifier with the org code 8lR was matched and repaired
C8_Witness ==
    /\ pc = "done"
    /\ run = "first"
    /\ WholeId(input)
    /\ Field(input, 2) = "8lR"
    /\ Field(text, 2) = "8lR"
    /\ id_changes # <<>>

\* C9: the identifier pass adds one id_changes entry and one to
\* total_fixes for each match it rewrote and nothing for the others, so a
\* new corrector ends with total_fixes = the sum of the rule hit counts +
\* the number of id_changes entries.
C9_FixCount ==
    (pc = "done" /\ run # "again") =>
        LET ms == FindAll(DOC_ID_RE, rules_out, 1)
            n  == Cardinality(Rewritten(rules_out, text, ms))
        IN  /\ Len(id_changes) = n
            /\ total_fixes = SumCounts(rule_hits, 1) + n

\* of two identifiers matched one was rewritten, and a rule hit as well
C9_Witness ==
    /\ pc = "done"
    /\ run = "first"
    /\ Len(FindAll(DOC_ID_RE, rules_out, 1)) = 2
    /\ Len(id_changes) = 1
    /\ rule_hits # <<>>

\* C10: a second call of correct with the same text returns the same text
\* and leaves the corrector's report as it was after the first call.
C10_SecondCallSameReport ==
    (pc = "done" /\ run = "again") =>
        /\ text = first.text
        /\ rule_hits = first.rule_hits
        /\ id_changes = first.id_changes
        /\ total_fixes = first.total_fixes

\* C16: every match of DOC_ID_RE has no word character just before it and
\* none just after it, and the matches the identifier pass replaces come
\* left to right without overlap.
C16_MatchBoundaries ==
    pc = "done" =>
        LET ms == FindAll(DOC_ID_RE, rules_out, 1)
        IN  \A j \in 1..Len(ms) :
                /\ ms[j].start = 1 \/ Ch(rules_out, ms[j].start - 1) \notin WORD
                /\ MatchEnd(ms[j]) > Len(rules_out)
                     \/ Ch(rules_out, MatchEnd(ms[j])) \notin WORD
                /\ j > 1 => MatchEnd(ms[j - 1]) <= ms[j].start

\* the fields alone match at a place inside a longer run, where the
\* pattern does not, and an identifier further on is matched
C16_Witness ==
    /\ pc = "done"
    /\ LET ms == FindAll(DOC_ID_RE, rules_out, 1)
       IN  /\ Len(ms) >= 1
           /\ \E q \in 1..Len(rules_out) :
                  /\ MatchItems(DOC_ID_RE.items, "none", rules_out, q, 1) # NoMatch
                  /\ MatchAt(DOC_ID_RE, rules_out, q) = NoMatch

\* what the identifier pass records when it is run on s with a new report
IdPassChanges(s) ==
    SubAll(s, FindAll(DOC_ID_RE, s, 1), 1,
           [reps |-> <<>>, id_changes |-> <<>>, total_fixes |-> 0]).id_changes

\* C20: every id_changes entry has one (raw, fixed) pair, the pair of
\* field 7; fields 1-6 and the length of the identifier are as in the raw
\* match; and the identifier pass run on its own result records nothing.
C20_OnlySeg7Changes ==
    pc = "done" =>
        /\ \A e \in 1..Len(id_changes) :
               LET raw == id_changes[e][1]
                   fix == id_changes[e][2]
               IN  /\ id_changes[e][3] = << <<Field(raw, 7), Field(fix, 7)>> >>
                   /\ Len(fix) = Len(raw)
                   /\ \A g \in 1..6 : Field(fix, g) = Field(raw, g)
        /\ IdPassChanges(text) = <<>>

\* two identifiers of one text were rewritten
C20_Witness ==
    /\ pc = "done"
    /\ run = "first"
    /\ Len(id_changes) = 2

\* ------------------------------------------------------------------
\* Page composition: claims

\* the bottom limit h_pt - margin_y of the baselines
BottomLimit == RSub(h_pt, RInt(margin_y))

\* lineCount x 14 <= pageHeight - 40, in integers
FitsNaturally ==
    Len(lines) * 14 * h_pt[2] <= h_pt[1] - 40 * h_pt[2]

\* the numbers of the lines of a list that insert_text takes
RECURSIVE OkNos(_)
OkNos(ls) ==
    IF ls = <<>> THEN <<>>
    ELSE (IF Head(ls).kind = "ok" THEN <<Head(ls).no>> ELSE <<>>)
            \o OkNos(Tail(ls))

PlacedNos == [j \in 1..Len(placed) |-> placed[j].no]

\* the number of leading lines whose baseline is within the limit
DropFrom ==
    LET over == {j \in 0..(Len(lines) - 1) : Overflows(h_pt, YOf(step, j))}
    IN  CHOOSE j \in over \cup {Len(lines)} :
            \A q \in over : j <= q

\* C12: when the lines do not fit at the natural pitch, every non-empty
\* line is placed at the compressed pitch (the page being higher than its
\* two margins, and no insert_text call failing).
C12_AllLinesPlaced ==
    (/\ lpc = "end"
     /\ lines # <<>>
     /\ h_pt[1] > 40 * h_pt[2]
     /\ ~FitsNaturally
     /\ \A j \in 1..Len(lines) : lines[j].kind = "ok")
        => Len(placed) = Len(lines)

\* the resolution the claim names: the embedded value, 96 without one
Resolution(v) == IF v = 0 THEN 96 ELSE v

HorizontalRes == IF png.dpi.kind = "none" THEN 96 ELSE Resolution(png.dpi.x)

VerticalRes ==
    IF png.dpi.kind = "none" THEN 96
    ELSE IF png.dpi.kind = "tuple" THEN Resolution(png.dpi.y)
    ELSE Resolution(png.dpi.x)

\* C13: the page is w_px * 72 / horizontal resolution wide and
\* h_px * 72 / vertical resolution high, and the image covers
\* (0, 0, width, height).
C13_PointSize ==
    lpc \in {"text", "loop", "end"} =>
        /\ w_pt = Rat(png.w_px * 72, HorizontalRes)
        /\ h_pt = Rat(png.h_px * 72, VerticalRes)
        /\ image_rect = <<Zero, Zero, w_pt, h_pt>>

\* C18 as stated: the lines placed are the first lines of the list.
C18_PlacedPrefix ==
    lpc = "end" =>
        \A j \in 1..Len(placed) : placed[j].no = lines[j].no

\* C18: the lines for which insert_text is called are the lines before the
\* first one whose baseline 20 + i * step + 10 exceeds h_pt - 20; the lines
\* placed are those of them on which insert_text does not raise, in order,
\* each at its baseline and at most at h_pt - 20; which lines are dropped
\* is a function of h_pt and the number of lines.
C18_AttemptedPrefix ==
    (lpc = "end" /\ lines # <<>>) =>
        /\ line_i = DropFrom
        /\ PlacedNos = OkNos(SubSeq(lines, 1, DropFrom))
        /\ \A j \in 1..Len(placed) :
               /\ RLe(placed[j].y, BottomLimit)
               /\ \E q \in 1..DropFrom :
                      /\ lines[q].no = placed[j].no
                      /\ placed[j].y = YOf(step, q - 1)

\* a line is placed after one on which insert_text raised, and a later
\* line is dropped
C18_Witness ==
    /\ lpc = "end"
    /\ line_i < Len(lines)
    /\ \E a, b \in 1..line_i :
           /\ a < b
           /\ lines[a].kind = "bad"
           /\ lines[b].kind = "ok"

\* C19: the pitch is 14 when lineCount x 14 <= h_pt - 40 and
\* (h_pt - 40) / lineCount otherwise; at pitch 14 the loop reaches every
\* line; at the other pitch it stops early only if the pitch is below 10;
\* nothing is placed on a page lower than 50.
C19_PitchAndDrops ==
    (lpc \in {"loop", "end"} /\ lines # <<>>) =>
        /\ step = IF FitsNaturally THEN <<14, 1>>
                  ELSE Rat(h_pt[1] - 40 * h_pt[2], h_pt[2] * Len(lines))
        /\ lpc = "end" =>
               /\ FitsNaturally => line_i = Len(lines)
               /\ (~FitsNaturally /\ line_i < Len(lines))
                      => step[1] < 10 * step[2]
               /\ h_pt[1] < 50 * h_pt[2] => placed = <<>>

\* lines are dropped at a compressed pitch, after some were placed
C19_Witness ==
    /\ lpc = "end"
    /\ ~FitsNaturally
    /\ placed # <<>>
    /\ line_i < Len(lines)
    /\ step[1] < 10 * step[2]

\* ------------------------------------------------------------------
\* Batches: claims

\* the OCR calls of this batch for document d, in order
RECURSIVE CallsOf(_, _)
CallsOf(d, j) ==
    IF j > Len(ocr_calls) THEN <<>>
    ELSE (IF ocr_calls[j].file = d THEN <<ocr_calls[j]>> ELSE <<>>)
            \o CallsOf(d, j + 1)

\* an OCR call of this batch for document d raised
Failed(d) ==
    \E j \in 1..Len(ocr_calls) :
        ocr_calls[j].file = d /\ ocr_calls[j].res = "raise"

\* C11: every builder call gets as many texts as page images, one per page
\* of the document; the PDF saved for a document of N pages has N pages,
\* and its page p holds the image and the text of input page p.
C11_PageCount ==
    /\ \A b \in 1..Len(builder_calls) :
           /\ builder_calls[b].texts = builder_calls[b].images
           /\ builder_calls[b].images = docs[builder_calls[b].file]
    /\ bpc = "build" => Len(pages_markdown) = docs[files[fidx]]
    /\ \A d \in 1..Len(docs) :
           out_pdf[d].saved =>
               /\ Len(out_pdf[d].pages) = docs[d]
               /\ \A p \in 1..docs[d] :
                      /\ out_pdf[d].pages[p].image = <<d, p>>
                      /\ out_pdf[d].pages[p].text.file = d
                      /\ out_pdf[d].pages[p].text.page = p

\* the PDFs of a one-page and of a two-page document are saved
C11_Witness ==
    \E d, e \in 1..Len(docs) :
        /\ out_pdf[d].saved /\ docs[d] = 1
        /\ out_pdf[e].saved /\ docs[e] = 2

\* C14: at the end of a batch loop that did not break at a stop check,
\* every document of the batch was processed, those before and those after
\* a failing one; a failing document is reported (once its callback ran,
\* its status is Error) and its siblings that did not fail have their PDF.
C14_SiblingsProcessed ==
    bpc = "finished" =>
        /\ stopped_at = 0 => fidx = Len(files) + 1
        /\ \A j \in 1..Len(files) :
               (stopped_at = 0 \/ j < stopped_at) =>
                   /\ CallsOf(files[j], 1) # <<>>
                   /\ Failed(files[j]) =>
                          /\ \E r \in 1..Len(reported) :
                                 reported[r] = [run |-> runs, file |-> files[j]]
                          /\ (mode = "gui" /\ after_q = <<>>)
                                 => status[files[j]] = "Error"
                   /\ ~Failed(files[j]) =>
                          /\ out_pdf[files[j]].saved
                          /\ out_pdf[files[j]].run = runs

\* a batch ends in which the first document failed and the second did not
C14_Witness ==
    /\ bpc = "finished"
    /\ Len(files) = 2
    /\ Failed(files[1])
    /\ ~Failed(files[2])
    /\ out_pdf[files[2]].saved

\* C15: no page's OCR call is started when Stop had been requested
\* before that page began, that is, by the time the page before it was
\* completed.
C15_NoOcrAfterStop ==
    \A j \in 1..Len(ocr_calls) : ~ocr_calls[j].stop

\* C17: when an OCR call for a document raises, it is the last OCR call
\* process_file makes for the document, the pages before it were each
\* requested once, the builder is not called for the document, and no PDF
\* and no markdown file is written for it in this batch.
C17_OcrFailureFatal ==
    \A d \in 1..Len(docs) :
        Failed(d) =>
            LET cs == CallsOf(d, 1)
            IN  /\ cs[Len(cs)].res = "raise"
                /\ \A j \in 1..Len(cs) :
                       /\ cs[j].page = j
                       /\ j < Len(cs) => cs[j].res = "text"
                /\ \A b \in 1..Len(builder_calls) : builder_calls[b].file # d
                /\ out_pdf[d].run # runs
                /\ ~out_md[d]

\* the second page of a document failed and the batch went on
C17_Witness ==
    \E d \in 1..Len(docs) :
        /\ Failed(d)
        /\ Len(CallsOf(d, 1)) = 2
        /\ bpc = "finished"

\* the table once the callbacks of q have run
RECURSIVE Applied(_, _)
Applied(st, q) ==
    IF q = <<>> THEN st
    ELSE Applied(IF Head(q).fn = "_apply_status"
                 THEN [st EXCEPT ![Head(q).iid] = Head(q).s]
                 ELSE st,
                 Tail(q))

\* the number of files of this batch that passed the stop check
StartedCount ==
    IF bpc \in {"ocr", "wait", "build"} THEN fidx ELSE fidx - 1

\* a status change of the lifecycle
StatusStep(old, new) ==
    \/ old \in {"Pending", "Error"} /\ new = "Processing"
    \/ old = "Processing" /\ new \in {"Done", "Error"}

\* C21 as stated: at the end of _worker_fn no file it started has the
\* status Processing.
C21_NoneProcessingAtFinish ==
    (mode = "gui" /\ bpc = "finished") =>
        \A j \in 1..StartedCount : status[files[j]] # "Processing"

\* what holds in every state of a GUI batch
C21_Batch ==
    (mode = "gui" /\ runs >= 1) =>
        /\ done + errors = fidx - 1
        /\ \A j \in 1..Len(files) :
               /\ out_pdf[files[j]].run \in {0, runs}
               /\ \A q \in 1..Len(files) : files[q] = files[j] => q = j
               /\ j > StartedCount =>
                      /\ CallsOf(files[j], 1) = <<>>
                      /\ Applied(status, after_q)[files[j]]
                             \in {"Pending", "Error"}
        /\ bpc = "finished" =>
               /\ StartedCount =
                      IF stopped_at = 0 THEN Len(files) ELSE stopped_at - 1
               /\ ~stop_event => stopped_at = 0
               /\ \A j \in 1..StartedCount :
                      Applied(status, after_q)[files[j]] \in {"Done", "Error"}
               /\ run_btn => \A d \in 1..Len(docs) : status[d] # "Processing"

\* C21: a row goes Pending -> Processing -> Done or Error, and from Error
\* to Processing again in a later batch; at the end of _worker_fn the last
\* status it gave each file it started is Done or Error, and no row shows
\* Processing once _on_done has run; done + errors is the number of files
\* started, all the files given unless the loop broke at a stop check; a
\* file at or after that check gets no OCR call and no status; no batch
\* holds a file that an earlier batch finished.
C21_StatusLifecycle ==
    /\ []C21_Batch
    /\ [][\A d \in 1..Len(docs) :
              status'[d] # status[d] => StatusStep(status[d], status'[d])
         ]_<<vars, layout_vars, batch_vars>>

\* a second batch ended: it left out the file the first batch finished and
\* finished the file that had failed
C21_Witness ==
    /\ mode = "gui"
    /\ runs = 2
    /\ bpc = "finished"
    /\ after_q = <<>>
    /\ \E d, e \in 1..Len(docs) :
           /\ out_pdf[d].run = 1
           /\ \A j \in 1..Len(files) : files[j] # d
           /\ out_pdf[e].run = 2
           /\ status[d] = "Done"
           /\ status[e] = "Done"

====
